---- MODULE Spec2Model ----
(***************************************************************************)
(* SBOM merge engine (lib/sbom-parser parseSBOMFiles) as a state machine.  *)
(* One invocation reads its files one by one, then runs the synchronous    *)
(* merge: per-document collection of components and edges, edge            *)
(* application, root inference, one-hop direct marking, the degenerate     *)
(* fallback and the aggregate counts.                                      *)
(*                                                                         *)
(* JS values: a string field that is absent is the sentinel Undefined; a   *)
(* JS Map is a sequence of entries in insertion order with unique keys; a  *)
(* JS Set whose order is observed (Array.from) is a duplicate-free         *)
(* sequence in insertion order.                                            *)
(***************************************************************************)
EXTENDS Integers, Sequences, FiniteSets, TLC

VARIABLES
    files,            \* the batch handed to parseSBOMFiles (text of each file, as parsed JSON)
    pc,               \* position of the invocation
    sbomFiles,        \* parsed documents pushed so far
    merged,           \* number of documents the merge loop has processed
    componentsMap,    \* Map<string, Component>, insertion order
    dependencyGraph,  \* Map<string, Set<string>>, insertion order
    projectName,
    timestamp,
    allDependencies,  \* Set<string> (only .has is used)
    rootComponents,   \* string[]
    result,           \* the ParsedSBOM returned, NoResult before the return
    clock,            \* what new Date().toISOString() yields in this invocation
    \* two invocations in flight at once
    calls,            \* per invocation: its files, how many were read, status, result
    arrays,           \* the sbomFiles arrays, by the scope that owns them
    schedule,         \* which invocation ran each step so far
    \* the application (app/page.tsx)
    home,             \* state of Home: sbomData, selectedComponent, viewMode, filters
    local,            \* state of the mounted view: DependencyTable or DependencyGraph
    uploads,          \* handleFilesUpload calls awaiting parseSBOMFiles, per slot
    alertOpen,        \* the error alert of handleFilesUpload is on screen
    started,          \* the batches of the uploads started so far, when recorded
    \* one render of a view
    rendered,         \* what the table or the graph view computed from its props
    tree              \* the tree view: expandedNodes and the TreeNode calls under way

parseVars == <<files, pc, sbomFiles, merged, componentsMap, dependencyGraph, projectName,
               timestamp, allDependencies, rootComponents, result, clock>>

callVars == <<calls, arrays, schedule>>

appVars == <<home, local, uploads, alertOpen, started>>

viewVars == <<rendered, tree>>

vars == <<parseVars, callVars, appVars, viewVars>>

----------------------------------------------------------------------------
(* Bounds of the input space *)

MaxFiles == 2
MaxComps == 3
MaxEdges == 2
MaxStarts == 3
MaxDepth == 4

----------------------------------------------------------------------------
(* JS value helpers *)

Undefined == "<undefined>"

\* JS truthiness of a string-or-undefined value
Truthy(s) == s # Undefined /\ s # ""

\* JS  a || b
Or(a, b) == IF Truthy(a) THEN a ELSE b

\* JS template-literal conversion `${v}`
TemplateStr(v) == IF v = Undefined THEN "undefined" ELSE v

Range(s) == {s[k] : k \in 1..Len(s)}

\* Set.add on an insertion-ordered set
SetAdd(s, x) == IF x \in Range(s) THEN s ELSE Append(s, x)

RECURSIVE SetAddAll(_, _)
SetAddAll(s, xs) ==
    IF xs = <<>> THEN s ELSE SetAddAll(SetAdd(s, Head(xs)), Tail(xs))

\* Map helpers: a map is a sequence of [key |-> k, val |-> v]
MapKeys(m) == {m[k].key : k \in 1..Len(m)}
MapHas(m, key) == key \in MapKeys(m)
MapIndex(m, key) == CHOOSE k \in 1..Len(m) : m[k].key = key
MapGet(m, key) == m[MapIndex(m, key)].val
MapSet(m, key, v) ==
    IF MapHas(m, key)
    THEN [m EXCEPT ![MapIndex(m, key)] = [key |-> key, val |-> v]]
    ELSE Append(m, [key |-> key, val |-> v])

----------------------------------------------------------------------------
(* Component collection, lines 109-137 *)

PathKey == "syft:location:0:path"
UnknownLicense == "Unknown"
UnknownProject == "Unknown Project"

\* variant: the id is always synthesized, the bom-ref is ignored
ComponentIdNameVersion(comp) ==
    TemplateStr(comp.name) \o "@" \o TemplateStr(comp.version)

\* comp["bom-ref"] || `${comp.name}@${comp.version}`
ComponentId(comp) ==
    Or(comp.bomref, TemplateStr(comp.name) \o "@" \o TemplateStr(comp.version))

\* comp.licenses?.[0]?.license?.<f>
FirstLicense(comp, f) ==
    IF Len(comp.licenses) = 0 THEN Undefined ELSE comp.licenses[1][f]

\* variant: no "Unknown" default
ExtractLicenseNoDefault(comp) ==
    Or(FirstLicense(comp, "id"), FirstLicense(comp, "name"))

ExtractLicense(comp) ==
    Or(Or(FirstLicense(comp, "id"), FirstLicense(comp, "name")), UnknownLicense)

\* comp.properties?.find((p) => p.name === PathKey)?.value || ""
ExtractPath(comp) ==
    LET hits == {k \in 1..Len(comp.properties) : comp.properties[k].name = PathKey}
        first == CHOOSE k \in hits : \A l \in hits : k <= l
    IN  IF hits = {} THEN "" ELSE Or(comp.properties[first].value, "")

\* variant: a component is created with a vulnerability of its own
NewComponentFlagged(comp) ==
    [id |-> ComponentId(comp),
     name |-> comp.name,
     version |-> comp.version,
     type |-> comp.type,
     purl |-> comp.purl,
     license |-> ExtractLicense(comp),
     isDirect |-> FALSE,
     vulnerabilities |-> <<[id |-> "CVE-1", severity |-> "high"]>>,
     dependencies |-> <<>>,
     path |-> ExtractPath(comp)]

NewComponent(comp) ==
    [id |-> ComponentId(comp),
     name |-> comp.name,
     version |-> comp.version,
     type |-> comp.type,
     purl |-> comp.purl,
     license |-> ExtractLicense(comp),
     isDirect |-> FALSE,
     vulnerabilities |-> <<>>,
     dependencies |-> <<>>,
     path |-> ExtractPath(comp)]

\* variant: set without the has() test, so the last record wins
AddComponentLastWins(map, comp) ==
    MapSet(map, ComponentId(comp), NewComponent(comp))

\* variant: components kept in a list and pushed without the has() test
AddComponentPush(map, comp) ==
    Append(map, [key |-> ComponentId(comp), val |-> NewComponent(comp)])

\* if (!componentsMap.has(componentId)) componentsMap.set(componentId, {...})
AddComponent(map, comp) ==
    IF MapHas(map, ComponentId(comp))
    THEN map
    ELSE MapSet(map, ComponentId(comp), NewComponent(comp))

RECURSIVE ProcessComponents(_, _)
ProcessComponents(map, comps) ==
    IF comps = <<>> THEN map
    ELSE ProcessComponents(AddComponent(map, Head(comps)), Tail(comps))

----------------------------------------------------------------------------
(* Edge collection, lines 139-148 *)

\* variant: only the first edge record of a ref counts
AddEdgeFirstOnly(graph, dep) ==
    IF dep.hasDependsOn /\ ~MapHas(graph, dep.ref)
    THEN MapSet(graph, dep.ref, SetAddAll(<<>>, dep.dependsOn))
    ELSE graph

\* variant: a later edge record of a ref replaces the targets collected so far
AddEdgeOverwrite(graph, dep) ==
    IF dep.hasDependsOn
    THEN MapSet(graph, dep.ref, SetAddAll(<<>>, dep.dependsOn))
    ELSE graph

AddEdge(graph, dep) ==
    IF dep.hasDependsOn
    THEN LET deps == IF MapHas(graph, dep.ref) THEN MapGet(graph, dep.ref) ELSE <<>>
         IN  MapSet(graph, dep.ref, SetAddAll(deps, dep.dependsOn))
    ELSE graph

RECURSIVE ProcessDependencies(_, _)
ProcessDependencies(graph, deps) ==
    IF deps = <<>> THEN graph
    ELSE ProcessDependencies(AddEdge(graph, Head(deps)), Tail(deps))

\* projectName after one document, lines 104-106
NextProjectName(name, sbom) ==
    IF Truthy(sbom.metaName) THEN sbom.metaName ELSE name

\* variant: the timestamp is taken from every document, declared or not
NextTimestampReset(ts, sbom) == sbom.metaTimestamp

\* variant: the documents' timestamps are ignored
NextTimestampIgnored(ts, sbom) == ts

\* timestamp after one document, line 107
NextTimestamp(ts, sbom) == Or(sbom.metaTimestamp, ts)

----------------------------------------------------------------------------
(* Graph derivation, lines 151-191 *)

\* allDependencies after dependencyGraph.forEach, line 156
AllTargets(graph) == UNION {Range(graph[k].val) : k \in 1..Len(graph)}

\* variant: targets without a component record are dropped from dependencies
ApplyEdgesResolved(map, graph) ==
    [k \in 1..Len(map) |->
        IF MapHas(graph, map[k].key)
        THEN [map[k] EXCEPT !.val.dependencies =
                SelectSeq(MapGet(graph, map[k].key), LAMBDA d : MapHas(map, d))]
        ELSE map[k]]

\* component.dependencies = Array.from(deps), lines 158-161
ApplyEdges(map, graph) ==
    [k \in 1..Len(map) |->
        IF MapHas(graph, map[k].key)
        THEN [map[k] EXCEPT !.val.dependencies = MapGet(graph, map[k].key)]
        ELSE map[k]]

IsRootEntry(e, allDeps) == e.key \notin allDeps

\* rootComponents after componentsMap.forEach, lines 165-170
InferRoots(map, allDeps) ==
    LET sel == SelectSeq(map, LAMBDA e : IsRootEntry(e, allDeps))
    IN  [k \in 1..Len(sel) |-> sel[k].key]

\* variant: roots are listed but not marked
MarkRootsUnmarked(map, allDeps) == map

MarkRoots(map, allDeps) ==
    [k \in 1..Len(map) |->
        IF IsRootEntry(map[k], allDeps)
        THEN [map[k] EXCEPT !.val.isDirect = TRUE]
        ELSE map[k]]

\* ids reached by root.dependencies.forEach over all roots, lines 173-183
RootTargets(map, roots) ==
    UNION {Range(MapGet(map, r).dependencies) : r \in Range(roots) \cap MapKeys(map)}

\* variant: propagation over two hops instead of one
MarkDirectTwoHops(map, roots) ==
    LET one == RootTargets(map, roots)
        two == UNION {Range(MapGet(map, d).dependencies) : d \in one \cap MapKeys(map)}
    IN  [k \in 1..Len(map) |->
            IF map[k].key \in one \cup two
            THEN [map[k] EXCEPT !.val.isDirect = TRUE]
            ELSE map[k]]

MarkDirect(map, roots) ==
    [k \in 1..Len(map) |->
        IF map[k].key \in RootTargets(map, roots)
        THEN [map[k] EXCEPT !.val.isDirect = TRUE]
        ELSE map[k]]

\* variant: rootComponents.length >= 0
FallbackFiresAlways(roots) == Len(roots) >= 0

\* if (rootComponents.length === 0), line 186
FallbackFires(roots) == Len(roots) = 0

\* variant: the fallback marks nothing
FallbackMapSkipped(map, roots) == map

FallbackMap(map, roots) ==
    IF FallbackFires(roots)
    THEN [k \in 1..Len(map) |-> [map[k] EXCEPT !.val.isDirect = TRUE]]
    ELSE map

\* variant: the fallback pushes nothing
FallbackRootsSkipped(map, roots) == roots

FallbackRoots(map, roots) ==
    IF FallbackFires(roots)
    THEN roots \o [k \in 1..Len(map) |-> map[k].val.id]
    ELSE roots

\* variant: only components that no component depends on are counted
DirectCountRootsOnly(map) ==
    Cardinality({k \in 1..Len(map) :
        /\ map[k].val.isDirect
        /\ \A l \in 1..Len(map) : map[k].key \notin Range(map[l].val.dependencies)})

\* lines 193-194
DirectCount(map) == Cardinality({k \in 1..Len(map) : map[k].val.isDirect})
TransitiveCount(map) == Len(map) - DirectCount(map)

\* lines 196-204
MakeResult(name, ts, map, roots) ==
    [projectName |-> name,
     timestamp |-> ts,
     components |-> map,
     rootComponents |-> roots,
     totalComponents |-> Len(map),
     directCount |-> DirectCount(map),
     transitiveCount |-> TransitiveCount(map)]

\* the accumulators after the merge loop over docs, lines 97-149
RECURSIVE MergeDocs(_, _)
MergeDocs(acc, docs) ==
    IF docs = <<>> THEN acc
    ELSE LET sbom == Head(docs) IN
         MergeDocs([projectName |-> NextProjectName(acc.projectName, sbom),
                    timestamp |-> NextTimestamp(acc.timestamp, sbom),
                    componentsMap |-> IF sbom.hasComponents
                                      THEN ProcessComponents(acc.componentsMap, sbom.components)
                                      ELSE acc.componentsMap,
                    dependencyGraph |-> IF sbom.hasDependencies
                                        THEN ProcessDependencies(acc.dependencyGraph,
                                                                 sbom.dependencies)
                                        ELSE acc.dependencyGraph],
                   Tail(docs))

\* the model parseSBOMFiles returns for parsed documents docs at time now, lines 96-204
ParseResult(docs, now) ==
    LET acc == MergeDocs([projectName |-> UnknownProject, timestamp |-> now,
                          componentsMap |-> <<>>, dependencyGraph |-> <<>>], docs)
        allDeps == AllTargets(acc.dependencyGraph)
        applied == ApplyEdges(acc.componentsMap, acc.dependencyGraph)
        roots == InferRoots(applied, allDeps)
        marked == MarkDirect(MarkRoots(applied, allDeps), roots)
    IN  MakeResult(acc.projectName, acc.timestamp, FallbackMap(marked, roots),
                   FallbackRoots(marked, roots))

----------------------------------------------------------------------------
(* Input space: the documents a batch may hold *)

SeqsUpTo(S, n) == UNION {[1..k -> S] : k \in 0..n}

GraphIds == {"a", "b", "c"}
ProjectNames == {"P1", "P2"}

\* a component record carrying only its identity
PlainRecord(id) ==
    [bomref |-> id, name |-> id, version |-> "1", type |-> "library",
     purl |-> Undefined, licenses |-> <<>>, properties |-> <<>>]

\* three records' identities with one identity key, "a@1"
SharedKeyIdentities ==
    {[bomref |-> "a@1", name |-> "a", version |-> "1"],
     [bomref |-> "a@1", name |-> "a", version |-> "2"],
     [bomref |-> Undefined, name |-> "a", version |-> "1"]}

\* an empty bom-ref, an absent name, a bom-ref that is a graph id
OtherIdentities ==
    {[bomref |-> "", name |-> "a", version |-> "2"],
     [bomref |-> Undefined, name |-> Undefined, version |-> "1"],
     [bomref |-> "b", name |-> "a", version |-> "1"]}

PlainPayload ==
    [type |-> "library", purl |-> Undefined, licenses |-> <<>>, properties |-> <<>>]

\* the optional fields: absent, present, and in the shapes the lookups distinguish
FieldPayloads ==
    {PlainPayload,
     [type |-> "application", purl |-> "pkg:npm/a@1",
      licenses |-> <<[id |-> "MIT", name |-> Undefined]>>,
      properties |-> <<[name |-> PathKey, value |-> "/app/a"]>>],
     [type |-> Undefined, purl |-> "pkg:npm/a@2",
      licenses |-> <<[id |-> Undefined, name |-> "Apache"]>>,
      properties |-> <<[name |-> "other", value |-> "x"],
                       [name |-> PathKey, value |-> "/lib/a"]>>],
     [type |-> "library", purl |-> Undefined,
      licenses |-> <<[id |-> Undefined, name |-> Undefined],
                     [id |-> "BSD", name |-> Undefined]>>,
      properties |-> <<[name |-> "other", value |-> "x"]>>]}

Record(i, p) ==
    [bomref |-> i.bomref, name |-> i.name, version |-> i.version, type |-> p.type,
     purl |-> p.purl, licenses |-> p.licenses, properties |-> p.properties]

\* component records that differ in every field the merge reads
FieldRecords ==
    {Record(i, p) : i \in SharedKeyIdentities, p \in FieldPayloads}
    \cup {Record(i, PlainPayload) : i \in OtherIdentities}

Edge(ref, target) == [ref |-> ref, hasDependsOn |-> TRUE, dependsOn |-> <<target>>]

GraphEdges == {Edge(r, t) : r \in GraphIds, t \in GraphIds}

\* an edge record without dependsOn, with an empty one, with two targets
OtherEdges ==
    {[ref |-> "a", hasDependsOn |-> FALSE, dependsOn |-> <<>>],
     [ref |-> "a", hasDependsOn |-> TRUE, dependsOn |-> <<>>],
     [ref |-> "a", hasDependsOn |-> TRUE, dependsOn |-> <<"b", "c">>]}

\* A file is the JSON value its text denotes: json is the type of the value
\* ("invalid" when the text is not JSON), the other fields are what property
\* access on the value yields (Undefined on a value that has no such property).
\* componentsType is the type of a truthy `components`.
Doc(name, comps, deps) ==
    [json |-> "object", metaName |-> name, metaTimestamp |-> Undefined,
     hasComponents |-> TRUE, componentsType |-> "array", components |-> comps,
     hasDependencies |-> TRUE, dependencies |-> deps]

\* a document without the optional arrays
BareDoc(name) ==
    [json |-> "object", metaName |-> name, metaTimestamp |-> Undefined,
     hasComponents |-> FALSE, componentsType |-> "array", components |-> <<>>,
     hasDependencies |-> FALSE, dependencies |-> <<>>]

\* a document that declares only metadata.timestamp
TimeDoc(ts) == [BareDoc(Undefined) EXCEPT !.metaTimestamp = ts]

\* a text that is not JSON, or JSON that is not an object
NonObject(j) == [BareDoc(Undefined) EXCEPT !.json = j]

\* what iterating a string yields: characters, on which every property is undefined
CharRecord ==
    [bomref |-> Undefined, name |-> Undefined, version |-> Undefined,
     type |-> Undefined, purl |-> Undefined, licenses |-> <<>>, properties |-> <<>>]

\* an object whose `components` is a string, a number or an object instead of a list
OddComponents(t) ==
    [BareDoc(Undefined) EXCEPT !.hasComponents = TRUE, !.componentsType = t,
                               !.components = IF t = "string" THEN <<CharRecord>> ELSE <<>>]

PlainRecords(ids) == [k \in 1..Len(ids) |-> PlainRecord(ids[k])]

GraphDocs ==
    {Doc(Undefined, PlainRecords(cs), es) :
        cs \in SeqsUpTo(GraphIds, MaxComps), es \in SeqsUpTo(GraphEdges, MaxEdges)}

\* documents of a batch of several files: project names, duplicate records,
\* components and edges spread over documents
NameDocs == {BareDoc(n) : n \in {Undefined, ""} \cup ProjectNames}

FieldDocs == {Doc(Undefined, <<r>>, <<>>) : r \in FieldRecords}

EdgeDocs ==
    {Doc(Undefined, PlainRecords(cs), es) :
        cs \in {<<>>, <<"a">>, <<"b", "c">>},
        es \in {<<>>, <<Edge("a", "b")>>, <<Edge("b", "c")>>, <<Edge("a", "c")>>,
                <<Edge("b", "a")>>}}
    \cup {Doc(Undefined, PlainRecords(<<"b", "c">>), <<e>>) : e \in OtherEdges}

Timestamps == {"2024-01-01T00:00:00.000Z", "2024-02-02T00:00:00.000Z"}

\* documents that declare a timestamp, or an empty one
TimeDocs == {TimeDoc(ts) : ts \in {""} \cup Timestamps}

\* a component record and nothing else: no metadata, no bom-ref, no purl, no
\* licenses, no properties, no dependencies array
SparseDocs ==
    {[Doc(Undefined, <<Record([bomref |-> Undefined, name |-> "a", version |-> "1"],
                              PlainPayload)>>, <<>>) EXCEPT !.hasDependencies = FALSE]}

\* files that are not a document of the expected shape
OddFiles ==
    {NonObject(j) : j \in {"invalid", "null", "number", "string", "boolean", "array"}}
    \cup {OddComponents(t) : t \in {"string", "number", "object"}}

MultiDocs == NameDocs \cup FieldDocs \cup EdgeDocs

\* documents of every shape: complete and sparse records, edge records with and
\* without dependsOn, files that are not documents
ShapeDocs ==
    FieldDocs \cup SparseDocs \cup OddFiles \cup {BareDoc(Undefined)}
    \cup {Doc(Undefined, PlainRecords(<<"b", "c">>), <<e>>) : e \in OtherEdges}

Batches == {<<d>> : d \in GraphDocs} \cup SeqsUpTo(MultiDocs, MaxFiles)

----------------------------------------------------------------------------
(* parseSBOMFiles, one invocation *)

NoResult == [projectName |-> Undefined]

\* new Date().toISOString() at the call, line 100
CurrentTime == "now"

\* JSON.parse(text) as SBOMFile, line 92: the value the text denotes; a text that
\* is not JSON throws SyntaxError
ParseThrows(text) == text.json = "invalid"
JSONParse(text) == text

\* the merge loop throws TypeError on a document: sbom.metadata on null (line 104),
\* for...of over a truthy `components` that is not iterable (line 111)
SbomThrows(sbom) ==
    \/ sbom.json = "null"
    \/ sbom.hasComponents /\ sbom.componentsType \in {"number", "object"}

\* parseSBOMFiles rejects the batch
Rejects(batch) ==
    \E k \in 1..Len(batch) : ParseThrows(batch[k]) \/ SbomThrows(JSONParse(batch[k]))

\* the application is not mounted
NoApp ==
    /\ home = <<>>
    /\ local = <<>>
    /\ uploads = <<>>
    /\ alertOpen = FALSE
    /\ started = <<>>

\* no view is being rendered on its own
NoViews ==
    /\ rendered = <<>>
    /\ tree = <<>>

\* no second invocation is in flight
NoCalls ==
    /\ calls = <<>>
    /\ arrays = <<>>
    /\ schedule = <<>>

Init ==
    /\ files \in Batches
    /\ pc = IF Len(files) = 0 THEN "merge" ELSE "read"
    /\ sbomFiles = <<>>
    /\ merged = 0
    /\ componentsMap = <<>>
    /\ dependencyGraph = <<>>
    /\ projectName = UnknownProject
    /\ clock = CurrentTime
    /\ timestamp = clock
    /\ allDependencies = {}
    /\ rootComponents = <<>>
    /\ result = NoResult
    /\ NoCalls
    /\ NoApp
    /\ NoViews

\* one iteration of the read loop, lines 90-94
ReadFile ==
    /\ pc = "read"
    /\ LET text == files[Len(sbomFiles) + 1] IN
        IF ParseThrows(text)
        THEN /\ pc' = "rejected"
             /\ UNCHANGED sbomFiles
        ELSE /\ sbomFiles' = Append(sbomFiles, JSONParse(text))
             /\ pc' = IF Len(sbomFiles') = Len(files) THEN "merge" ELSE "read"
    /\ UNCHANGED <<files, merged, componentsMap, dependencyGraph, projectName,
                   timestamp, allDependencies, rootComponents, result, clock>>
    /\ UNCHANGED <<callVars, appVars, viewVars>>

\* one iteration of the merge loop, lines 102-149
ProcessSbom ==
    /\ pc = "merge"
    /\ merged < Len(sbomFiles)
    /\ LET sbom == sbomFiles[merged + 1] IN
        IF SbomThrows(sbom)
        THEN /\ pc' = "rejected"
             /\ UNCHANGED <<projectName, timestamp, componentsMap, dependencyGraph, merged>>
        ELSE /\ projectName' = NextProjectName(projectName, sbom)
             /\ timestamp' = NextTimestamp(timestamp, sbom)
             /\ componentsMap' = IF sbom.hasComponents
                                 THEN ProcessComponents(componentsMap, sbom.components)
                                 ELSE componentsMap
             /\ dependencyGraph' = IF sbom.hasDependencies
                                   THEN ProcessDependencies(dependencyGraph, sbom.dependencies)
                                   ELSE dependencyGraph
             /\ merged' = merged + 1
             /\ UNCHANGED pc
    /\ UNCHANGED <<files, sbomFiles, allDependencies, rootComponents, result, clock>>
    /\ UNCHANGED <<callVars, appVars, viewVars>>

\* dependencyGraph.forEach, lines 151-162
BuildRelationships ==
    /\ pc = "merge"
    /\ merged = Len(sbomFiles)
    /\ allDependencies' = AllTargets(dependencyGraph)
    /\ componentsMap' = ApplyEdges(componentsMap, dependencyGraph)
    /\ pc' = "roots"
    /\ UNCHANGED <<files, sbomFiles, merged, dependencyGraph, projectName, timestamp,
                   rootComponents, result, clock>>
    /\ UNCHANGED <<callVars, appVars, viewVars>>

\* componentsMap.forEach, lines 164-170
IdentifyRoots ==
    /\ pc = "roots"
    /\ rootComponents' = InferRoots(componentsMap, allDependencies)
    /\ componentsMap' = MarkRoots(componentsMap, allDependencies)
    /\ pc' = "direct"
    /\ UNCHANGED <<files, sbomFiles, merged, dependencyGraph, projectName, timestamp,
                   allDependencies, result, clock>>
    /\ UNCHANGED <<callVars, appVars, viewVars>>

\* rootComponents.forEach, lines 172-183
MarkDirectDependencies ==
    /\ pc = "direct"
    /\ componentsMap' = MarkDirect(componentsMap, rootComponents)
    /\ pc' = "fallback"
    /\ UNCHANGED <<files, sbomFiles, merged, dependencyGraph, projectName, timestamp,
                   allDependencies, rootComponents, result, clock>>
    /\ UNCHANGED <<callVars, appVars, viewVars>>

\* if (rootComponents.length === 0), lines 185-191
Fallback ==
    /\ pc = "fallback"
    /\ componentsMap' = FallbackMap(componentsMap, rootComponents)
    /\ rootComponents' = FallbackRoots(componentsMap, rootComponents)
    /\ pc' = "return"
    /\ UNCHANGED <<files, sbomFiles, merged, dependencyGraph, projectName, timestamp,
                   allDependencies, result, clock>>
    /\ UNCHANGED <<callVars, appVars, viewVars>>

\* the counts and the returned object, lines 193-204
Return ==
    /\ pc = "return"
    /\ result' = MakeResult(projectName, timestamp, componentsMap, rootComponents)
    /\ pc' = "done"
    /\ UNCHANGED <<files, sbomFiles, merged, componentsMap, dependencyGraph, projectName,
                   timestamp, allDependencies, rootComponents, clock>>
    /\ UNCHANGED <<callVars, appVars, viewVars>>

Next ==
    \/ ReadFile
    \/ ProcessSbom
    \/ BuildRelationships
    \/ IdentifyRoots
    \/ MarkDirectDependencies
    \/ Fallback
    \/ Return

Spec == Init /\ [][Next]_vars

----------------------------------------------------------------------------
(* The same invocation with the clock as an input: batches of documents     *)
(* with and without timestamps, names, components and edges, merged at      *)
(* either of two times.                                                     *)

LaterTime == "later"
Clock == {CurrentTime, LaterTime}

ClockDocs == TimeDocs \cup NameDocs \cup EdgeDocs

InitClock ==
    /\ files \in SeqsUpTo(ClockDocs, MaxFiles)
    /\ pc = IF Len(files) = 0 THEN "merge" ELSE "read"
    /\ sbomFiles = <<>>
    /\ merged = 0
    /\ componentsMap = <<>>
    /\ dependencyGraph = <<>>
    /\ projectName = UnknownProject
    /\ clock \in Clock
    /\ timestamp = clock
    /\ allDependencies = {}
    /\ rootComponents = <<>>
    /\ result = NoResult
    /\ NoCalls
    /\ NoApp
    /\ NoViews

SpecClock == InitClock /\ [][Next]_vars

----------------------------------------------------------------------------
(* The same invocation on batches of files of every shape *)

InitShapes ==
    /\ files \in SeqsUpTo(ShapeDocs, MaxFiles)
    /\ pc = IF Len(files) = 0 THEN "merge" ELSE "read"
    /\ sbomFiles = <<>>
    /\ merged = 0
    /\ componentsMap = <<>>
    /\ dependencyGraph = <<>>
    /\ projectName = UnknownProject
    /\ clock = CurrentTime
    /\ timestamp = clock
    /\ allDependencies = {}
    /\ rootComponents = <<>>
    /\ result = NoResult
    /\ NoCalls
    /\ NoApp
    /\ NoViews

SpecShapes == InitShapes /\ [][Next]_vars

----------------------------------------------------------------------------
(* Two invocations of parseSBOMFiles in flight at once. An invocation runs  *)
(* synchronously up to its next `await file.text()`; when the last text     *)
(* arrives, the rest of the function (parse, push, the whole merge, the     *)
(* return) runs in the same turn.                                           *)

Calls == {1, 2}

\* const sbomFiles: any[] = [] (line 87) is a local: one array per invocation
\* variant: one module-level array
ScopeShared(call) == 1

Scope(call) == call

CallDocs ==
    {Doc("P1", <<PlainRecord("a")>>, <<Edge("a", "b")>>),
     Doc("P2", <<PlainRecord("b"), PlainRecord("c")>>, <<Edge("b", "c")>>),
     TimeDoc("2024-01-01T00:00:00.000Z"),
     NonObject("invalid")}

\* lines 96-204 on the documents pushed: the TypeError of the merge loop, or the model
Settle(call, docs, now) ==
    IF \E k \in 1..Len(docs) : SbomThrows(docs[k])
    THEN [call EXCEPT !.status = "rejected"]
    ELSE [call EXCEPT !.status = "done", !.result = ParseResult(docs, now)]

InitCalls ==
    /\ files = <<>>
    /\ pc = "idle"
    /\ sbomFiles = <<>>
    /\ merged = 0
    /\ componentsMap = <<>>
    /\ dependencyGraph = <<>>
    /\ projectName = UnknownProject
    /\ clock = CurrentTime
    /\ timestamp = clock
    /\ allDependencies = {}
    /\ rootComponents = <<>>
    /\ result = NoResult
    /\ calls \in [Calls -> {[files |-> b, read |-> 0, status |-> "idle", result |-> NoResult] :
                              b \in SeqsUpTo(CallDocs, MaxFiles)}]
    /\ arrays = [c \in Calls |-> <<>>]
    /\ schedule = <<>>
    /\ NoApp
    /\ NoViews

\* the call: lines 86-89, up to the first await (with no files, up to the return)
Call(i) ==
    /\ calls[i].status = "idle"
    /\ arrays' = [arrays EXCEPT ![Scope(i)] = <<>>]
    /\ calls' = [calls EXCEPT ![i] =
                    IF Len(calls[i].files) = 0
                    THEN Settle(calls[i], arrays'[Scope(i)], clock)
                    ELSE [calls[i] EXCEPT !.status = "reading"]]
    /\ schedule' = Append(schedule, i)
    /\ UNCHANGED <<parseVars, appVars, viewVars>>

\* a file's text arrives: lines 90-94, then the next await or lines 96-204
Resume(i) ==
    /\ calls[i].status = "reading"
    /\ LET text == calls[i].files[calls[i].read + 1]
           read == calls[i].read + 1
       IN  IF ParseThrows(text)
           THEN /\ calls' = [calls EXCEPT ![i].status = "rejected"]
                /\ UNCHANGED arrays
           ELSE /\ arrays' = [arrays EXCEPT ![Scope(i)] = Append(@, JSONParse(text))]
                /\ calls' = [calls EXCEPT ![i] =
                                IF read = Len(calls[i].files)
                                THEN Settle([calls[i] EXCEPT !.read = read],
                                            arrays'[Scope(i)], clock)
                                ELSE [calls[i] EXCEPT !.read = read]]
    /\ schedule' = Append(schedule, i)
    /\ UNCHANGED <<parseVars, appVars, viewVars>>

NextCalls == \E i \in Calls : Call(i) \/ Resume(i)

SpecCalls == InitCalls /\ [][NextCalls]_vars

----------------------------------------------------------------------------
(* The application: Home (app/page.tsx) with the filter panel, the table    *)
(* and the graph view. An upload is an asynchronous handleFilesUpload call; *)
(* what it does to the state of Home happens in one turn, when              *)
(* parseSBOMFiles settles. Uploads in flight settle in any order.           *)

Null == [null |-> TRUE]

\* useState initial values, app/page.tsx lines 16-24
InitialFilters == [search |-> "", dependencyType |-> "all", severity |-> "all", cveId |-> ""]

InitialHome ==
    [sbomData |-> Null, selectedComponent |-> Null, viewMode |-> "table",
     filters |-> InitialFilters]

\* the setters of Home: each replaces one cell
SetSBOMData(h, parsed) == [h EXCEPT !.sbomData = parsed]
SetSelectedComponent(h, component) == [h EXCEPT !.selectedComponent = component]
SetViewMode(h, mode) == [h EXCEPT !.viewMode = mode]

\* variant: changing the filters narrows the model to nothing
SetFiltersDropsModel(h, f) == [h EXCEPT !.filters = f, !.sbomData = Null]

SetFilters(h, f) == [h EXCEPT !.filters = f]

\* the documents read before the first text that does not parse
RECURSIVE ParsedPrefix(_)
ParsedPrefix(batch) ==
    IF batch = <<>> \/ ParseThrows(Head(batch)) THEN <<>>
    ELSE <<JSONParse(Head(batch))>> \o ParsedPrefix(Tail(batch))

\* variant: the selection survives a new model
HandleFilesUploadKeepsSelection(h, batch, now) ==
    IF Rejects(batch)
    THEN h
    ELSE SetSBOMData(h, ParseResult(batch, now))

\* variant: a failed batch shows what was read before the failure
HandleFilesUploadPartial(h, batch, now) ==
    IF Rejects(batch)
    THEN SetSelectedComponent(SetSBOMData(h, ParseResult(ParsedPrefix(batch), now)), Null)
    ELSE SetSelectedComponent(SetSBOMData(h, ParseResult(batch, now)), Null)

\* handleFilesUpload once parseSBOMFiles has settled, app/page.tsx lines 26-35
HandleFilesUpload(h, batch, now) ==
    IF Rejects(batch)
    THEN h
    ELSE SetSelectedComponent(SetSBOMData(h, ParseResult(batch, now)), Null)

\* useState initial values of the view that viewMode mounts (lines 112-128):
\* dependency-table.tsx lines 21-23, dependency-graph.tsx lines 37-38
MountView(mode) ==
    IF mode = "table"
    THEN [view |-> "table", sortField |-> "name", sortDirection |-> "asc", searchTerm |-> ""]
    ELSE [view |-> "graph", collapsedNodes |-> {}, expandedNodes |-> {}]

Unmounted == [view |-> "none"]

\* String.prototype.toLowerCase on the letters in use
ToLowerCase(str) ==
    CASE str = "A" -> "a"
      [] str = "P1" -> "p1"
      [] str = "P2" -> "p2"
      [] OTHER -> str

Fragments == {"", "a", "b", "c", "1", "p", "2"}

\* the texts made of three fragments, each with its middle fragment
Composed ==
    {<<pre \o part \o post, part>> : pre \in Fragments, part \in Fragments, post \in Fragments}

\* String.prototype.includes
Includes(str, part) ==
    IF part \in Fragments
    THEN <<str, part>> \in Composed
    ELSE \E pre, post \in Fragments : str = pre \o part \o post

\* the search test of the filters, dependency-table.tsx lines 30-43
MatchesSearch(comp, text) ==
    Truthy(text) =>
        \/ Includes(ToLowerCase(comp.name), ToLowerCase(text))
        \/ Includes(ToLowerCase(comp.version), ToLowerCase(text))

HasSeverity(comp, severity) ==
    \E k \in 1..Len(comp.vulnerabilities) : comp.vulnerabilities[k].severity = severity

HasCVE(comp, cveId) ==
    \E k \in 1..Len(comp.vulnerabilities) :
        Includes(ToLowerCase(comp.vulnerabilities[k].id), ToLowerCase(cveId))

\* variant: the transitive choice keeps the direct components too
PassesFiltersKeepsDirect(comp, f) ==
    /\ MatchesSearch(comp, f.search)
    /\ ~(f.dependencyType = "direct" /\ ~comp.isDirect)
    /\ f.severity # "all" => HasSeverity(comp, f.severity)
    /\ Truthy(f.cveId) => HasCVE(comp, f.cveId)

\* the filter callback shared by both views, dependency-graph.tsx lines 44-66
PassesFilters(comp, f) ==
    /\ MatchesSearch(comp, f.search)
    /\ ~(f.dependencyType = "direct" /\ ~comp.isDirect)
    /\ ~(f.dependencyType = "transitive" /\ comp.isDirect)
    /\ f.severity # "all" => HasSeverity(comp, f.severity)
    /\ Truthy(f.cveId) => HasCVE(comp, f.cveId)

\* Array.from(sbomData.components.values())
ComponentValues(data) == [k \in 1..Len(data.components) |-> data.components[k].val]

\* filteredComponents of DependencyTable, dependency-table.tsx lines 25-64
TableFilteredComponents(data, f, searchTerm) ==
    LET Keep(comp) == PassesFilters(comp, f) /\ MatchesSearch(comp, searchTerm)
    IN  SelectSeq(ComponentValues(data), Keep)

\* filteredComponents of DependencyGraph, dependency-graph.tsx lines 41-68
GraphFilteredComponents(data, f) ==
    LET Keep(comp) == PassesFilters(comp, f)
    IN  SelectSeq(ComponentValues(data), Keep)

\* the ids the traversal of graphData makes visible, dependency-graph.tsx lines 84-109
RECURSIVE VisibleNodes(_, _, _, _)
VisibleNodes(nodesToProcess, visibleNodes, filtered, collapsedNodes) ==
    IF nodesToProcess = <<>> THEN visibleNodes
    ELSE LET currentId == Head(nodesToProcess)
             found == {k \in 1..Len(filtered) : filtered[k].id = currentId}
             filteredIds == {filtered[k].id : k \in 1..Len(filtered)}
         IN  IF found = {} \/ currentId \in collapsedNodes
             THEN VisibleNodes(Tail(nodesToProcess), visibleNodes, filtered, collapsedNodes)
             ELSE LET component == filtered[CHOOSE k \in found : \A j \in found : k <= j]
                      Fresh(depId) == depId \in filteredIds /\ depId \notin visibleNodes
                      added == SelectSeq(component.dependencies, Fresh)
                  IN  VisibleNodes(Tail(nodesToProcess) \o added,
                                   visibleNodes \cup Range(added), filtered, collapsedNodes)

\* variant: a collapsed node still shows its dependencies
GraphNodesIgnoresCollapse(data, f, collapsedNodes) ==
    LET filtered == GraphFilteredComponents(data, f)
        IsDirect(comp) == comp.isDirect
        direct == SelectSeq(filtered, IsDirect)
        directIds == [k \in 1..Len(direct) |-> direct[k].id]
        visible == VisibleNodes(directIds, Range(directIds), filtered, {})
        Visible(comp) == comp.id \in visible
    IN  SelectSeq(filtered, Visible)

\* the component nodes of graphData, dependency-graph.tsx lines 70-125
GraphNodes(data, f, collapsedNodes) ==
    LET filtered == GraphFilteredComponents(data, f)
        IsDirect(comp) == comp.isDirect
        direct == SelectSeq(filtered, IsDirect)
        directIds == [k \in 1..Len(direct) |-> direct[k].id]
        visible == VisibleNodes(directIds, Range(directIds), filtered, collapsedNodes)
        Visible(comp) == comp.id \in visible
    IN  SelectSeq(filtered, Visible)

\* childCount of a node, dependency-graph.tsx line 116
ChildCount(comp, data, f) ==
    LET filtered == GraphFilteredComponents(data, f)
        filteredIds == {filtered[k].id : k \in 1..Len(filtered)}
    IN  Cardinality({k \in 1..Len(comp.dependencies) : comp.dependencies[k] \in filteredIds})

\* toggleCollapse and toggleExpand, dependency-graph.tsx lines 153-175
Toggle(prev, nodeId) == IF nodeId \in prev THEN prev \ {nodeId} ELSE prev \cup {nodeId}

\* handleSort, dependency-table.tsx lines 102-109
HandleSort(l, field) ==
    IF l.sortField = field
    THEN [l EXCEPT !.sortDirection = IF l.sortDirection = "asc" THEN "desc" ELSE "asc"]
    ELSE [l EXCEPT !.sortField = field, !.sortDirection = "asc"]

\* updateFilter, filter-panel.tsx lines 15-20
UpdateFilter(f, key, value) == [f EXCEPT ![key] = value]

SortFields == {"name", "version", "type", "isDirect", "vulnerabilities"}

\* what the user may type or pick in the filter panel and the table search
FilterValues(key) ==
    CASE key = "search" -> {"", "A"}
      [] key = "dependencyType" -> {"all", "direct", "transitive"}
      [] key = "severity" -> {"all", "high"}
      [] key = "cveId" -> {"", "CVE-1"}

SearchTerms == {"", "b"}

AppGood == Doc("P1", <<PlainRecord("a"), PlainRecord("b")>>, <<Edge("a", "b")>>)
AppOther == Doc("P2", <<PlainRecord("b")>>, <<>>)
AppBad == NonObject("invalid")

\* the batches the user picks
AppBatches == {<<AppGood>>, <<AppOther>>, <<AppOther, AppBad>>, <<AppBad, AppGood>>}

Idle == <<>>

\* the value of `started` in a specification that keeps no record of the uploads
NotRecorded == [recorded |-> FALSE, order |-> <<>>]
Recorded(order) == [recorded |-> TRUE, order |-> order]

InitApp ==
    /\ files = <<>>
    /\ pc = "idle"
    /\ sbomFiles = <<>>
    /\ merged = 0
    /\ componentsMap = <<>>
    /\ dependencyGraph = <<>>
    /\ projectName = UnknownProject
    /\ clock = CurrentTime
    /\ timestamp = clock
    /\ allDependencies = {}
    /\ rootComponents = <<>>
    /\ result = NoResult
    /\ NoCalls
    /\ home = InitialHome
    /\ local = Unmounted
    /\ uploads = [c \in Calls |-> Idle]
    /\ alertOpen = FALSE
    /\ started = NotRecorded
    /\ NoViews

\* SBOMUploader handleFileChange (sbom-uploader.tsx lines 15-20) calling
\* handleFilesUpload, which awaits parseSBOMFiles
StartUpload(i, batch) ==
    /\ ~alertOpen
    /\ uploads[i] = Idle
    /\ Len(batch) > 0
    /\ started.recorded => Len(started.order) < MaxStarts
    /\ uploads' = [uploads EXCEPT ![i] = batch]
    /\ started' = IF started.recorded THEN Recorded(Append(started.order, batch)) ELSE started
    /\ UNCHANGED <<parseVars, callVars, viewVars, home, local, alertOpen>>

\* parseSBOMFiles settles and handleFilesUpload continues; the first model mounts
\* the view of the current mode
SettleUpload(i) ==
    /\ ~alertOpen
    /\ uploads[i] # Idle
    /\ home' = HandleFilesUpload(home, uploads[i], clock)
    /\ local' = IF home'.sbomData # Null /\ local = Unmounted
                THEN MountView(home.viewMode)
                ELSE local
    /\ uploads' = [uploads EXCEPT ![i] = Idle]
    /\ alertOpen' = Rejects(uploads[i])
    /\ UNCHANGED <<parseVars, callVars, viewVars, started>>

\* a field of the filter panel changes
ChangeFilter(key, value) ==
    /\ ~alertOpen
    /\ home.sbomData # Null
    /\ home' = SetFilters(home, UpdateFilter(home.filters, key, value))
    /\ UNCHANGED <<parseVars, callVars, viewVars, local, uploads, alertOpen, started>>

\* Clear All Filters, filter-panel.tsx lines 117-132
ClearFilters ==
    /\ ~alertOpen
    /\ home.sbomData # Null
    /\ home.filters # InitialFilters
    /\ home' = SetFilters(home, InitialFilters)
    /\ UNCHANGED <<parseVars, callVars, viewVars, local, uploads, alertOpen, started>>

\* the Table and Graph buttons, app/page.tsx lines 54-77
SwitchView(mode) ==
    /\ ~alertOpen
    /\ home.sbomData # Null
    /\ home' = SetViewMode(home, mode)
    /\ local' = IF mode = home.viewMode THEN local ELSE MountView(mode)
    /\ UNCHANGED <<parseVars, callVars, viewVars, uploads, alertOpen, started>>

\* a click on a column header of the table
SortTable(field) ==
    /\ ~alertOpen
    /\ local.view = "table"
    /\ local' = HandleSort(local, field)
    /\ UNCHANGED <<parseVars, callVars, viewVars, home, uploads, alertOpen, started>>

\* typing in the table's own search box, dependency-table.tsx line 169
TypeSearchTerm(term) ==
    /\ ~alertOpen
    /\ local.view = "table"
    /\ local' = [local EXCEPT !.searchTerm = term]
    /\ UNCHANGED <<parseVars, callVars, viewVars, home, uploads, alertOpen, started>>

\* a click on a table row, dependency-table.tsx line 258
SelectRow(k) ==
    /\ ~alertOpen
    /\ local.view = "table"
    /\ LET rows == TableFilteredComponents(home.sbomData, home.filters, local.searchTerm)
       IN  /\ k \in 1..Len(rows)
           /\ home' = SetSelectedComponent(home, rows[k])
    /\ UNCHANGED <<parseVars, callVars, viewVars, local, uploads, alertOpen, started>>

\* a click on a graph node, dependency-graph.tsx lines 256-262
ClickNode(k) ==
    /\ ~alertOpen
    /\ local.view = "graph"
    /\ LET nodes == GraphNodes(home.sbomData, home.filters, local.collapsedNodes)
       IN  /\ k \in 1..Len(nodes)
           /\ local' = [local EXCEPT !.expandedNodes = Toggle(@, nodes[k].id)]
           /\ home' = SetSelectedComponent(home, nodes[k])
    /\ UNCHANGED <<parseVars, callVars, viewVars, uploads, alertOpen, started>>

\* a double click on a graph node, dependency-graph.tsx lines 263-268
DoubleClickNode(k) ==
    /\ ~alertOpen
    /\ local.view = "graph"
    /\ LET nodes == GraphNodes(home.sbomData, home.filters, local.collapsedNodes)
       IN  /\ k \in 1..Len(nodes)
           /\ ChildCount(nodes[k], home.sbomData, home.filters) > 0
           /\ local' = [local EXCEPT !.collapsedNodes = Toggle(@, nodes[k].id)]
    /\ UNCHANGED <<parseVars, callVars, viewVars, home, uploads, alertOpen, started>>

\* onClose of ComponentDetails, app/page.tsx lines 131-133
CloseDetails ==
    /\ ~alertOpen
    /\ home.sbomData # Null
    /\ home.selectedComponent # Null
    /\ home' = SetSelectedComponent(home, Null)
    /\ UNCHANGED <<parseVars, callVars, viewVars, local, uploads, alertOpen, started>>

\* exportToJSON and exportToPDF read the model and write a file, lib/export.tsx
Export ==
    /\ ~alertOpen
    /\ home.sbomData # Null
    /\ UNCHANGED <<parseVars, callVars, viewVars, home, local, uploads, alertOpen, started>>

ViewOperation ==
    \/ \E key \in DOMAIN InitialFilters : \E value \in FilterValues(key) :
          ChangeFilter(key, value)
    \/ ClearFilters
    \/ \E mode \in {"table", "graph"} : SwitchView(mode)
    \/ \E field \in SortFields : SortTable(field)
    \/ \E term \in SearchTerms : TypeSearchTerm(term)
    \/ \E k \in 1..MaxComps : SelectRow(k)
    \/ \E k \in 1..MaxComps : ClickNode(k)
    \/ \E k \in 1..MaxComps : DoubleClickNode(k)
    \/ CloseDetails
    \/ Export

\* alert() (app/page.tsx line 33) blocks the page until the user dismisses it:
\* every other step waits for ~alertOpen
DismissAlert ==
    /\ alertOpen
    /\ alertOpen' = FALSE
    /\ UNCHANGED <<parseVars, callVars, viewVars, home, local, uploads, started>>

NextApp ==
    \/ \E i \in Calls : \E batch \in AppBatches : StartUpload(i, batch)
    \/ \E i \in Calls : SettleUpload(i)
    \/ ViewOperation
    \/ DismissAlert

SpecApp == InitApp /\ [][NextApp]_vars

----------------------------------------------------------------------------
(* The uploads alone, with a record of the order in which they were started *)

InitUploads ==
    /\ files = <<>>
    /\ pc = "idle"
    /\ sbomFiles = <<>>
    /\ merged = 0
    /\ componentsMap = <<>>
    /\ dependencyGraph = <<>>
    /\ projectName = UnknownProject
    /\ clock = CurrentTime
    /\ timestamp = clock
    /\ allDependencies = {}
    /\ rootComponents = <<>>
    /\ result = NoResult
    /\ NoCalls
    /\ home = InitialHome
    /\ local = Unmounted
    /\ uploads = [c \in Calls |-> Idle]
    /\ alertOpen = FALSE
    /\ started = Recorded(<<>>)
    /\ NoViews

NextUploads ==
    \/ \E i \in Calls : \E batch \in AppBatches : StartUpload(i, batch)
    \/ \E i \in Calls : SettleUpload(i)
    \/ DismissAlert

SpecUploads == InitUploads /\ [][NextUploads]_vars

----------------------------------------------------------------------------
(* The views on their own: one model as props, the filters and the view's   *)
(* local state change, and every change renders the view again              *)

\* the search test throws TypeError: toLowerCase of an undefined name, or of an
\* undefined version once the name does not contain the text,
\* dependency-table.tsx lines 30-35
SearchThrows(comp, text) ==
    /\ Truthy(text)
    /\ \/ comp.name = Undefined
       \/ /\ ~Includes(ToLowerCase(comp.name), ToLowerCase(text))
          /\ comp.version = Undefined

\* the filter callback throws on a component; the table's own search term is
\* tested only when the filter panel's search has let the component pass
CallbackThrows(comp, f, searchTerm) ==
    \/ SearchThrows(comp, f.search)
    \/ /\ MatchesSearch(comp, f.search)
       /\ SearchThrows(comp, searchTerm)

\* components.filter(...) throws when the callback throws on one component
FilterThrows(data, f, searchTerm) ==
    \E k \in 1..Len(data.components) :
        CallbackThrows(data.components[k].val, f, searchTerm)

\* filteredComponents of DependencyTree, part_001 lines 44-75
TreeFilteredComponents(data, f) ==
    LET Keep(comp) == PassesFilters(comp, f)
    IN  SelectSeq(ComponentValues(data), Keep)

RootNodeId == "__root__"

\* the links of one component, dependency-graph.tsx lines 142-149
LinksOf(component, filteredIds, visible) ==
    LET Shown(depId) == depId \in filteredIds /\ depId \in visible
        targets == SelectSeq(component.dependencies, Shown)
    IN  [k \in 1..Len(targets) |-> [source |-> component.id, target |-> targets[k]]]

\* the component links of graphData, dependency-graph.tsx lines 137-150
RECURSIVE ComponentLinks(_, _, _, _)
ComponentLinks(comps, filteredIds, visible, collapsedNodes) ==
    IF comps = <<>> THEN <<>>
    ELSE LET component == Head(comps)
             rest == ComponentLinks(Tail(comps), filteredIds, visible, collapsedNodes)
         IN  IF component.id \notin visible \/ component.id \in collapsedNodes
             THEN rest
             ELSE LinksOf(component, filteredIds, visible) \o rest

\* graphData, dependency-graph.tsx lines 70-151: the root node and one node per
\* visible component; the root's links to the direct components and the links
\* along the dependencies of the visible components that are not collapsed
GraphData(data, f, collapsedNodes) ==
    LET filtered == GraphFilteredComponents(data, f)
        filteredIds == {filtered[k].id : k \in 1..Len(filtered)}
        shown == GraphNodes(data, f, collapsedNodes)
        visible == {shown[k].id : k \in 1..Len(shown)}
        IsDirect(comp) == comp.isDirect /\ comp.id \in visible
        direct == SelectSeq(filtered, IsDirect)
    IN  [nodes |-> <<[id |-> RootNodeId, component |-> Null]>>
                   \o [k \in 1..Len(shown) |-> [id |-> shown[k].id, component |-> shown[k]]],
         links |-> [k \in 1..Len(direct) |-> [source |-> RootNodeId, target |-> direct[k].id]]
                   \o ComponentLinks(filtered, filteredIds, visible, collapsedNodes)]

\* the tree view keeps no search term of its own
MountTree == [view |-> "tree"]

NoGraph == [nodes |-> <<>>, links |-> <<>>]

\* one render of the mounted view: its filtered list, and the graph's data; a
\* TypeError thrown by the filter callback leaves nothing rendered
RenderView(h, l) ==
    IF FilterThrows(h.sbomData, h.filters, IF l.view = "table" THEN l.searchTerm ELSE "")
    THEN [status |-> "TypeError", view |-> l.view, filtered |-> <<>>, graphData |-> NoGraph]
    ELSE CASE l.view = "table" ->
                [status |-> "ok", view |-> "table",
                 filtered |-> TableFilteredComponents(h.sbomData, h.filters, l.searchTerm),
                 graphData |-> NoGraph]
           [] l.view = "graph" ->
                [status |-> "ok", view |-> "graph",
                 filtered |-> GraphFilteredComponents(h.sbomData, h.filters),
                 graphData |-> GraphData(h.sbomData, h.filters, l.collapsedNodes)]
           [] l.view = "tree" ->
                [status |-> "ok", view |-> "tree",
                 filtered |-> TreeFilteredComponents(h.sbomData, h.filters),
                 graphData |-> NoGraph]

\* the dependsOn lists of one component
TargetLists ==
    {<<>>, <<"a">>, <<"b">>, <<"c">>, <<"b", "c">>}

DependsOn(ref, targets) == [ref |-> ref, hasDependsOn |-> TRUE, dependsOn |-> targets]

\* every dependency graph over three components, cycles and self-dependencies
\* included
CyclicDocs ==
    {Doc(Undefined, PlainRecords(<<"a", "b", "c">>),
         <<DependsOn("a", ta), DependsOn("b", tb), DependsOn("c", tc)>>) :
        ta \in TargetLists, tb \in TargetLists, tc \in TargetLists}

\* a component without name, a component without version
NamelessDocs ==
    {Doc(Undefined, <<PlainRecord("a"), [PlainRecord("b") EXCEPT !.name = Undefined]>>, es) :
        es \in {<<>>, <<Edge("a", "b")>>}}
    \cup {Doc(Undefined, <<[PlainRecord("b") EXCEPT !.version = Undefined], PlainRecord("a")>>, <<>>)}

ViewDocs == CyclicDocs \cup NamelessDocs

ViewModes == {"table", "graph", "tree"}

InitViews ==
    /\ files = <<>>
    /\ pc = "idle"
    /\ sbomFiles = <<>>
    /\ merged = 0
    /\ componentsMap = <<>>
    /\ dependencyGraph = <<>>
    /\ projectName = UnknownProject
    /\ clock = CurrentTime
    /\ timestamp = clock
    /\ allDependencies = {}
    /\ rootComponents = <<>>
    /\ result = NoResult
    /\ NoCalls
    /\ \E d \in ViewDocs : home = SetSBOMData(InitialHome, ParseResult(<<d>>, clock))
    /\ local = MountView("table")
    /\ uploads = [c \in Calls |-> Idle]
    /\ alertOpen = FALSE
    /\ started = NotRecorded
    /\ rendered = RenderView(home, local)
    /\ tree = <<>>

\* a change in the filter panel, filter-panel.tsx lines 15-20
FilterView(key, value) ==
    /\ rendered.status = "ok"
    /\ home' = SetFilters(home, UpdateFilter(home.filters, key, value))
    /\ rendered' = RenderView(home', local)
    /\ UNCHANGED <<parseVars, callVars, local, uploads, alertOpen, started, tree>>

\* another view is shown with the same props; a view that is mounted starts
\* from its initial local state, app/page.tsx lines 112-128
ShowView(mode) ==
    /\ rendered.status = "ok"
    /\ mode # local.view
    /\ home' = IF mode = "tree" THEN home ELSE SetViewMode(home, mode)
    /\ local' = IF mode = "tree" THEN MountTree ELSE MountView(mode)
    /\ rendered' = RenderView(home', local')
    /\ UNCHANGED <<parseVars, callVars, uploads, alertOpen, started, tree>>

\* typing in the table's own search box, dependency-table.tsx line 169
SearchTable(term) ==
    /\ rendered.status = "ok"
    /\ local.view = "table"
    /\ local' = [local EXCEPT !.searchTerm = term]
    /\ rendered' = RenderView(home, local')
    /\ UNCHANGED <<parseVars, callVars, home, uploads, alertOpen, started, tree>>

\* a double click on a node of the graph that has children,
\* dependency-graph.tsx lines 263-268
CollapseNode(k) ==
    /\ rendered.status = "ok"
    /\ local.view = "graph"
    /\ k \in 2..Len(rendered.graphData.nodes)
    /\ LET node == rendered.graphData.nodes[k]
       IN  /\ ChildCount(node.component, home.sbomData, home.filters) > 0
           /\ local' = [local EXCEPT !.collapsedNodes = Toggle(@, node.id)]
    /\ rendered' = RenderView(home, local')
    /\ UNCHANGED <<parseVars, callVars, home, uploads, alertOpen, started, tree>>

NextViews ==
    \/ \E key \in DOMAIN InitialFilters : \E value \in FilterValues(key) : FilterView(key, value)
    \/ \E mode \in ViewModes : ShowView(mode)
    \/ \E term \in SearchTerms : SearchTable(term)
    \/ \E k \in 1..(MaxComps + 1) : CollapseNode(k)

SpecViews == InitViews /\ [][NextViews]_vars

----------------------------------------------------------------------------
(* The tree view, part_001: the list of nested TreeNode components, rendered *)
(* one TreeNode at a time, and the d3 tree, built by buildTree               *)

FilteredIds(filtered) == {filtered[k].id : k \in 1..Len(filtered)}

\* the TreeNode elements of the roots, part_001 lines 762-780
RootTreeNodes(data, filtered) ==
    LET Shown(rootId) == rootId \in FilteredIds(filtered) /\ MapHas(data.components, rootId)
        roots == SelectSeq(data.rootComponents, Shown)
    IN  [k \in 1..Len(roots) |-> [id |-> roots[k], level |-> 0]]

\* the TreeNode elements one TreeNode returns, part_001 lines 863-887
TreeNodeChildren(component, level, data, filtered, expandedNodes) ==
    LET isExpanded == component.id \in expandedNodes
        hasChildren == Len(component.dependencies) > 0
        Shown(depId) == MapHas(data.components, depId) /\ depId \in FilteredIds(filtered)
        deps == SelectSeq(component.dependencies, Shown)
    IN  IF isExpanded /\ hasChildren
        THEN [k \in 1..Len(deps) |-> [id |-> deps[k], level |-> level + 1]]
        ELSE <<>>

\* if (level > 5) return, part_001 line 95
DepthLimit == 5

\* buildTree, part_001 lines 94-132: the nodes it pushes, in order
RECURSIVE BuildTree(_, _, _, _, _, _)
RECURSIVE BuildChildren(_, _, _, _, _, _)
BuildTree(parentId, level, parentComponent, data, filteredIds, collapsedNodes) ==
    IF level > DepthLimit THEN <<>>
    ELSE LET Kept(id) == id \in filteredIds
             children == IF parentComponent # Null
                         THEN SelectSeq(parentComponent.dependencies, Kept)
                         ELSE SelectSeq(data.rootComponents, Kept)
         IN  BuildChildren(children, parentId, level, data, filteredIds, collapsedNodes)

\* children.forEach of buildTree, part_001 lines 102-131
BuildChildren(children, parentId, level, data, filteredIds, collapsedNodes) ==
    IF children = <<>> THEN <<>>
    ELSE LET childId == Head(children)
             rest == BuildChildren(Tail(children), parentId, level, data, filteredIds,
                                   collapsedNodes)
         IN  IF ~MapHas(data.components, childId) THEN rest
             ELSE LET component == MapGet(data.components, childId)
                      isCollapsed == childId \in collapsedNodes
                      Kept(id) == id \in filteredIds
                      node == [id |-> childId, level |-> level + 1, parent |-> parentId,
                               childCount |-> Len(SelectSeq(component.dependencies, Kept))]
                  IN  <<node>>
                      \o (IF ~isCollapsed /\ Len(component.dependencies) > 0
                          THEN BuildTree(childId, level + 1, component, data, filteredIds,
                                         collapsedNodes)
                          ELSE <<>>)
                      \o rest

\* treeData.nodes, part_001 lines 77-135
TreeData(data, f, collapsedNodes) ==
    <<[id |-> RootNodeId, level |-> 0, parent |-> RootNodeId, childCount |-> 0]>>
    \o BuildTree(RootNodeId, 0, Null, data,
                 FilteredIds(TreeFilteredComponents(data, f)), collapsedNodes)

\* the list tree starts a render: the root TreeNodes are pending, none is shown
StartRender(h, expandedNodes) ==
    [variant |-> "list", expandedNodes |-> expandedNodes, collapsedNodes |-> {},
     pending |-> RootTreeNodes(h.sbomData, TreeFilteredComponents(h.sbomData, h.filters)),
     shown |-> {}, treeData |-> <<>>]

\* the d3 tree computes treeData for its collapsed set
Layout(h, collapsedNodes) ==
    [variant |-> "d3", expandedNodes |-> {}, collapsedNodes |-> collapsedNodes,
     pending |-> <<>>, shown |-> {},
     treeData |-> TreeData(h.sbomData, h.filters, collapsedNodes)]

InitTree ==
    /\ files = <<>>
    /\ pc = "idle"
    /\ sbomFiles = <<>>
    /\ merged = 0
    /\ componentsMap = <<>>
    /\ dependencyGraph = <<>>
    /\ projectName = UnknownProject
    /\ clock = CurrentTime
    /\ timestamp = clock
    /\ allDependencies = {}
    /\ rootComponents = <<>>
    /\ result = NoResult
    /\ NoCalls
    /\ \E d \in CyclicDocs : home = SetSBOMData(InitialHome, ParseResult(<<d>>, clock))
    /\ local = MountTree
    /\ uploads = [c \in Calls |-> Idle]
    /\ alertOpen = FALSE
    /\ started = NotRecorded
    /\ rendered = <<>>
    /\ tree \in {StartRender(home, {}), Layout(home, {})}

\* React renders the TreeNode that is next in document order: its row is
\* shown and its children are rendered before its siblings
RenderTreeNode ==
    /\ tree.variant = "list"
    /\ tree.pending # <<>>
    /\ Head(tree.pending).level < MaxDepth
    /\ LET call == Head(tree.pending)
           component == MapGet(home.sbomData.components, call.id)
           filtered == TreeFilteredComponents(home.sbomData, home.filters)
       IN  tree' = [tree EXCEPT
                       !.shown = @ \cup {call.id},
                       !.pending = TreeNodeChildren(component, call.level, home.sbomData,
                                                    filtered, tree.expandedNodes)
                                   \o Tail(tree.pending)]
    /\ UNCHANGED <<parseVars, callVars, appVars, rendered>>

\* toggleNode from the chevron of a row that has children, part_001 lines 711-719
ToggleNode(id) ==
    /\ tree.variant = "list"
    /\ tree.pending = <<>>
    /\ id \in tree.shown
    /\ Len(MapGet(home.sbomData.components, id).dependencies) > 0
    /\ tree' = StartRender(home, Toggle(tree.expandedNodes, id))
    /\ UNCHANGED <<parseVars, callVars, appVars, rendered>>

\* expandAll of the list tree, part_001 lines 721-724
ExpandAll ==
    /\ tree.variant = "list"
    /\ tree.pending = <<>>
    /\ tree' = StartRender(home, MapKeys(home.sbomData.components))
    /\ UNCHANGED <<parseVars, callVars, appVars, rendered>>

\* collapseAll of the list tree, part_001 lines 726-728
CollapseAll ==
    /\ tree.variant = "list"
    /\ tree.pending = <<>>
    /\ tree' = StartRender(home, {})
    /\ UNCHANGED <<parseVars, callVars, appVars, rendered>>

\* a double click on a node of the d3 tree that has children, part_001 lines 264-269
ToggleCollapse(k) ==
    /\ tree.variant = "d3"
    /\ k \in 1..Len(tree.treeData)
    /\ tree.treeData[k].childCount > 0
    /\ tree' = Layout(home, Toggle(tree.collapsedNodes, tree.treeData[k].id))
    /\ UNCHANGED <<parseVars, callVars, appVars, rendered>>

\* expandAll of the d3 tree, part_001 lines 152-154
ExpandAllNodes ==
    /\ tree.variant = "d3"
    /\ tree' = Layout(home, {})
    /\ UNCHANGED <<parseVars, callVars, appVars, rendered>>

\* collapseAll of the d3 tree, part_001 lines 156-159
CollapseAllNodes ==
    /\ tree.variant = "d3"
    /\ tree' = Layout(home, {tree.treeData[k].id :
                                k \in {j \in 1..Len(tree.treeData) : tree.treeData[j].childCount > 0}})
    /\ UNCHANGED <<parseVars, callVars, appVars, rendered>>

NextTree ==
    \/ RenderTreeNode
    \/ \E id \in GraphIds : ToggleNode(id)
    \/ ExpandAll
    \/ CollapseAll
    \/ \E k \in 1..Len(tree.treeData) : ToggleCollapse(k)
    \/ ExpandAllNodes
    \/ CollapseAllNodes

SpecTree == InitTree /\ [][NextTree]_vars

----------------------------------------------------------------------------
(* Views of the input and of a returned model, used by the properties *)

Done == pc = "done"

RECURSIVE AllRecords(_)
AllRecords(docs) ==
    IF docs = <<>> THEN <<>>
    ELSE (IF Head(docs).hasComponents THEN Head(docs).components ELSE <<>>)
         \o AllRecords(Tail(docs))

RECURSIVE AllEdges(_)
AllEdges(docs) ==
    IF docs = <<>> THEN <<>>
    ELSE (IF Head(docs).hasDependencies THEN Head(docs).dependencies ELSE <<>>)
         \o AllEdges(Tail(docs))

Keys(r) == MapKeys(r.components)
Comp(r, id) == MapGet(r.components, id)
DirectIds(r) == {id \in Keys(r) : Comp(r, id).isDirect}
RootIds(r) == Range(r.rootComponents)
DepsOf(r, id) == Range(Comp(r, id).dependencies)

\* ids that are a target of some edge record of the batch
EdgeTargets(docs) ==
    UNION {Range(AllEdges(docs)[k].dependsOn) : k \in 1..Len(AllEdges(docs))}

\* root inference found at least one root
RootsInferred(r, docs) == Keys(r) \ EdgeTargets(docs) # {}

\* the returned model is the pure function of the batch
ResultIsParseResult == Done => result = ParseResult(files, clock)

----------------------------------------------------------------------------
(* C1: in every returned model directCount + transitiveCount =              *)
(* totalComponents, totalComponents is the number of entries of the         *)
(* components map, and directCount is the number of components with         *)
(* isDirect = true.                                                         *)
C1_CountInvariant ==
    Done =>
        /\ result.directCount + result.transitiveCount = result.totalComponents
        /\ result.totalComponents = Cardinality(Keys(result))
        /\ result.directCount = Cardinality(DirectIds(result))

\* a returned model with both direct and transitive components
C1_Witness ==
    /\ Done
    /\ result.directCount >= 2
    /\ result.transitiveCount >= 1

(* C2: whenever the merged map is non-empty, rootComponents has at least    *)
(* one entry, every root is a key of the map and directCount >= 1.          *)
C2_RootsNonEmpty ==
    (Done /\ Keys(result) # {}) =>
        /\ Len(result.rootComponents) >= 1
        /\ RootIds(result) \subseteq Keys(result)
        /\ result.directCount >= 1

\* a non-empty model in which every component is the target of an edge
C2_Witness ==
    /\ Done
    /\ Cardinality(Keys(result)) >= 2
    /\ Keys(result) \subseteq EdgeTargets(files)

RecordIds(docs) == {ComponentId(AllRecords(docs)[k]) : k \in 1..Len(AllRecords(docs))}

\* the record with identity key id that the merge loop meets first
FirstRecord(docs, id) ==
    LET rs == AllRecords(docs)
        hits == {k \in 1..Len(rs) : ComponentId(rs[k]) = id}
    IN  rs[CHOOSE k \in hits : \A l \in hits : k <= l]

(* C4: first occurrence wins: name, version, type, purl, license and path   *)
(* of a merged component are those of the first record with its identity    *)
(* key; later records with that key change nothing and add no entry.        *)
C4_FirstOccurrenceWins ==
    Done =>
        /\ \A id \in Keys(result) :
            LET rec == FirstRecord(files, id)
                c == Comp(result, id)
            IN  /\ c.name = rec.name
                /\ c.version = rec.version
                /\ c.type = rec.type
                /\ c.purl = rec.purl
                /\ c.license = ExtractLicense(rec)
                /\ c.path = ExtractPath(rec)
        /\ Len(result.components) = Cardinality(RecordIds(files))

\* two records with one identity key that differ in version, type, purl, license and path
C4_Witness ==
    /\ Done
    /\ \E i, j \in 1..Len(AllRecords(files)) :
        LET r1 == AllRecords(files)[i]
            r2 == AllRecords(files)[j]
        IN  /\ i < j
            /\ ComponentId(r1) = ComponentId(r2)
            /\ r1.version # r2.version
            /\ r1.type # r2.type
            /\ r1.purl # r2.purl
            /\ ExtractLicense(r1) # ExtractLicense(r2)
            /\ ExtractPath(r1) # ExtractPath(r2)
            /\ Comp(result, ComponentId(r1)).version = r1.version

(* C5: merging [D, D] yields the same totalComponents, component ids,       *)
(* dependency set per component, isDirect per component and root set as     *)
(* merging [D].                                                             *)
C5_DuplicateDocumentIdempotent ==
    (Done /\ Len(files) = 1) =>
        LET twice == ParseResult(<<files[1], files[1]>>, CurrentTime) IN
            /\ twice.totalComponents = result.totalComponents
            /\ Keys(twice) = Keys(result)
            /\ \A id \in Keys(result) :
                /\ DepsOf(twice, id) = DepsOf(result, id)
                /\ Comp(twice, id).isDirect = Comp(result, id).isDirect
            /\ RootIds(twice) = RootIds(result)

\* a single document with a root, a direct and a transitive component
C5_Witness ==
    /\ Done
    /\ Len(files) = 1
    /\ result.totalComponents = 3
    /\ result.transitiveCount = 1
    /\ Len(result.rootComponents) = 1

(* C6: an edge {ref: X, dependsOn: [Y]} whose target Y has no component     *)
(* record leaves the map without an entry for Y, keeps Y in X's             *)
(* dependencies, and the merge completes also when X is a root.             *)
C6_DanglingEdgeSafe ==
    Done =>
        \A k \in 1..Len(AllEdges(files)) :
            LET e == AllEdges(files)[k] IN
            \A y \in Range(e.dependsOn) \ RecordIds(files) :
                /\ y \notin Keys(result)
                /\ e.ref \in Keys(result) => y \in DepsOf(result, e.ref)

\* the merge has returned for a batch whose root X has a dangling target Y
C6_Witness ==
    /\ Done
    /\ RootsInferred(result, files)
    /\ \E x \in RootIds(result) : \E y \in DepsOf(result, x) : y \notin Keys(result)

(* C7: when the map is non-empty and root inference finds no root, every    *)
(* component is direct, every component id is in rootComponents and         *)
(* transitiveCount = 0.                                                     *)
C7_DegenerateFallback ==
    (Done /\ Keys(result) # {} /\ ~RootsInferred(result, files)) =>
        /\ \A id \in Keys(result) : Comp(result, id).isDirect
        /\ RootIds(result) = Keys(result)
        /\ result.transitiveCount = 0

\* a self-dependency or a cycle without a source
C7_Witness ==
    /\ Done
    /\ Keys(result) # {}
    /\ ~RootsInferred(result, files)
    /\ \E id \in Keys(result) : id \in DepsOf(result, id)

(* C8: when no document holds an edge with a target, every component is in  *)
(* rootComponents exactly once and is direct, and transitiveCount = 0.      *)
C8_NoEdgesAllRoots ==
    (Done /\ EdgeTargets(files) = {}) =>
        /\ \A id \in Keys(result) :
            /\ Cardinality({k \in 1..Len(result.rootComponents) :
                                result.rootComponents[k] = id}) = 1
            /\ Comp(result, id).isDirect
        /\ result.transitiveCount = 0

\* several components, an edge record without dependsOn and one without targets
C8_Witness ==
    /\ Done
    /\ EdgeTargets(files) = {}
    /\ Cardinality(Keys(result)) >= 2
    /\ \E k \in 1..Len(AllEdges(files)) : ~AllEdges(files)[k].hasDependsOn
    /\ \E k \in 1..Len(AllEdges(files)) : AllEdges(files)[k].hasDependsOn

\* the identity key of a record as the data model states it
IdentityKey(rec) ==
    IF rec.bomref # Undefined /\ rec.bomref # ""
    THEN rec.bomref
    ELSE TemplateStr(rec.name) \o "@" \o TemplateStr(rec.version)

(* C9: a component's id is its record's bom-ref when that is present (a     *)
(* non-empty string), otherwise name@version; every entry (k, c) has        *)
(* c.id = k, and the map has one entry per distinct identity key.           *)
C9_ComponentIdentity ==
    Done =>
        /\ \A k \in 1..Len(result.components) :
            result.components[k].val.id = result.components[k].key
        /\ Len(result.components) = Cardinality(Keys(result))
        /\ Keys(result) = {IdentityKey(AllRecords(files)[k]) : k \in 1..Len(AllRecords(files))}

\* a record with a bom-ref and one without whose name@version is that bom-ref: one entry
C9_Witness ==
    /\ Done
    /\ Len(result.components) = 1
    /\ \E i, j \in 1..Len(AllRecords(files)) :
        /\ AllRecords(files)[i].bomref = "a@1"
        /\ AllRecords(files)[j].bomref = Undefined
        /\ result.components[1].key = "a@1"

\* the name of the first document, in processing order, that declares one
FirstDeclaredName(docs) ==
    LET hits == {k \in 1..Len(docs) : Truthy(docs[k].metaName)}
    IN  IF hits = {} THEN UnknownProject
        ELSE docs[CHOOSE k \in hits : \A l \in hits : k <= l].metaName

(* C10: projectName is the metadata.component.name of the first document    *)
(* that declares one; later documents do not change it; without any name    *)
(* it is "Unknown Project".                                                 *)
C10_FirstProjectNameWins ==
    Done => result.projectName = FirstDeclaredName(files)

\* the documents of the batch that declare a non-empty timestamp
Timestamped(docs) == {k \in 1..Len(docs) : Truthy(docs[k].metaTimestamp)}

\* the timestamp of the last document, in processing order, that declares one
LastDeclaredTimestamp(docs, t) ==
    IF Timestamped(docs) = {} THEN t
    ELSE docs[CHOOSE k \in Timestamped(docs) : \A l \in Timestamped(docs) : l <= k].metaTimestamp

(* C11: the model's timestamp is the metadata.timestamp of the last         *)
(* document that declares a non-empty one; a later document without one     *)
(* does not reset it; without any it is the current time of the call.       *)
C11_LatestTimestampWins ==
    Done => result.timestamp = LastDeclaredTimestamp(files, clock)

\* a document with a timestamp followed by a document without one
C11_Witness ==
    /\ Done
    /\ Len(files) = 2
    /\ Truthy(files[1].metaTimestamp)
    /\ ~Truthy(files[2].metaTimestamp)
    /\ result.timestamp = files[1].metaTimestamp

(* C16 as stated: a call on the same list at any other time returns a model *)
(* equal in every field, also when no document declares a timestamp.        *)
C16_SameModelAtAnyTime ==
    Done => \A t \in Clock : ParseResult(files, t) = result

(* C16 amended: a call on the same list at any other time returns a model   *)
(* equal in every field but the timestamp, and equal in the timestamp too   *)
(* when some document declares one.                                         *)
C16_SameModelUpToClock ==
    Done =>
        \A t \in Clock :
            LET again == ParseResult(files, t) IN
                /\ [again EXCEPT !.timestamp = result.timestamp] = result
                /\ Timestamped(files) # {} => again.timestamp = result.timestamp

\* a batch with a timestamp, components and an edge between them
C16_Witness ==
    /\ Done
    /\ Timestamped(files) # {}
    /\ \E id \in Keys(result) : DepsOf(result, id) \cap Keys(result) # {}

\* valid JSON that is not an object of the expected shape
OddShape(file) ==
    \/ file.json \in {"number", "string", "boolean", "null", "array"}
    \/ file.json = "object" /\ file.hasComponents /\ file.componentsType # "array"

(* C13: a batch with a file that is valid JSON but not an object of the     *)
(* expected shape never yields a model: the merge fails.                    *)
C13_OddShapeFails ==
    Done => \A k \in 1..Len(files) : ~OddShape(files[k])

(* C14: a structurally valid document never makes the merge fail by         *)
(* omitting optional fields, and a component whose record omits them gets   *)
(* license "Unknown", path "", no dependencies and no vulnerabilities.      *)
C14_OptionalFieldsDefault ==
    /\ pc = "rejected" =>
         \E k \in 1..Len(files) : files[k].json = "invalid" \/ OddShape(files[k])
    /\ Done =>
         \A id \in Keys(result) :
            LET rec == FirstRecord(files, id)
                c == Comp(result, id)
            IN  /\ rec.licenses = <<>> => c.license = UnknownLicense
                /\ rec.properties = <<>> => c.path = ""
                /\ (\A k \in 1..Len(AllEdges(files)) :
                        AllEdges(files)[k].ref # id \/ ~AllEdges(files)[k].hasDependsOn)
                     => c.dependencies = <<>>
                /\ c.vulnerabilities = <<>>

\* a document with one record and neither metadata, bom-ref, purl, licenses,
\* properties nor a dependencies array
C14_Witness ==
    /\ Done
    /\ files \in {<<d>> : d \in SparseDocs}
    /\ result.totalComponents = 1
    /\ result.components[1].val.license = UnknownLicense
    /\ result.components[1].val.path = ""

(* C15: no component of a returned model has an undefined id, name,         *)
(* version or type.                                                         *)
C15_RequiredScalarsDefined ==
    Done =>
        \A id \in Keys(result) :
            /\ Comp(result, id).id # Undefined
            /\ Comp(result, id).name # Undefined
            /\ Comp(result, id).version # Undefined
            /\ Comp(result, id).type # Undefined

FileOrders(n) == {p \in [1..n -> 1..n] : \A i, j \in 1..n : p[i] = p[j] => i = j}

Permuted(docs, p) == [k \in 1..Len(docs) |-> docs[p[k]]]

(* C18: for every permutation of the documents the merged model has the     *)
(* same component ids, the same dependency set and isDirect per component,  *)
(* the same root ids and the same three counts.                             *)
C18_OrderIrrelevantForStructure ==
    Done =>
        \A p \in FileOrders(Len(files)) :
            LET other == ParseResult(Permuted(files, p), clock) IN
                /\ Keys(other) = Keys(result)
                /\ \A id \in Keys(result) :
                    /\ DepsOf(other, id) = DepsOf(result, id)
                    /\ Comp(other, id).isDirect = Comp(result, id).isDirect
                /\ RootIds(other) = RootIds(result)
                /\ other.totalComponents = result.totalComponents
                /\ other.directCount = result.directCount
                /\ other.transitiveCount = result.transitiveCount

\* two documents whose order changes the model (a scalar tie-break or a list
\* order) while components and edges come from both
C18_Witness ==
    /\ Done
    /\ Len(files) = 2
    /\ ParseResult(<<files[2], files[1]>>, clock) # result
    /\ \E id \in Keys(result) : Cardinality(DepsOf(result, id)) = 2

(* C20: when a root is inferred, a component id is in rootComponents        *)
(* exactly when no component of the merged model lists it in its            *)
(* dependencies, also when an edge's ref matches no component record.       *)
C20_RootIffNoComponentDependsOnIt ==
    (Done /\ RootsInferred(result, files)) =>
        \A id \in Keys(result) :
            id \in RootIds(result) <=> \A c \in Keys(result) : id \notin DepsOf(result, c)

(* C17: two invocations on different batches that interleave at their file  *)
(* reads each settle as they would alone: a returned model is the model of  *)
(* the invocation's own files, and a rejection is due to its own files.     *)
C17_ConcurrentMergesIndependent ==
    \A i \in DOMAIN calls :
        /\ calls[i].status = "done" =>
              /\ ~Rejects(calls[i].files)
              /\ calls[i].result = ParseResult(calls[i].files, clock)
        /\ calls[i].status = "rejected" => Rejects(calls[i].files)

\* both invocations returned a model with components, the second having run
\* between two steps of the first
C17_Witness ==
    /\ DOMAIN calls = Calls
    /\ \A i \in Calls : calls[i].status = "done" /\ calls[i].result.totalComponents > 0
    /\ calls[1].files # calls[2].files
    /\ Keys(calls[1].result) # Keys(calls[2].result)
    /\ \E j, k, l \in 1..Len(schedule) :
          j < k /\ k < l /\ schedule[j] = 1 /\ schedule[k] = 2 /\ schedule[l] = 1

\* upload i settles in this step
Settles(i) == uploads[i] # Idle /\ uploads'[i] = Idle

(* C12: when an upload whose batch holds a file that does not parse         *)
(* settles, whatever the position of that file, Home keeps its sbomData,    *)
(* selectedComponent and filters: nothing of the batch is displayed.        *)
C12_FailedUploadChangesNothing ==
    [][\A i \in DOMAIN uploads :
          (Settles(i) /\ \E k \in 1..Len(uploads[i]) : ParseThrows(uploads[i][k]))
              => home' = home]_vars

\* a failed upload has just settled, and a model, a selection and a filter are in
\* place
C12_Witness ==
    /\ alertOpen
    /\ home.sbomData = ParseResult(<<AppGood>>, clock)
    /\ home.selectedComponent # Null
    /\ home.filters # InitialFilters
    /\ \A i \in Calls : uploads[i] = Idle

(* C19: the sbomData of Home changes only in a step where an upload settles *)
(* with a model, and then to that model; no view operation changes it.      *)
C19_OnlyUploadReplacesModel ==
    [][home'.sbomData # home.sbomData =>
          \E i \in DOMAIN uploads :
              /\ Settles(i)
              /\ ~Rejects(uploads[i])
              /\ home'.sbomData = ParseResult(uploads[i], clock)]_vars

\* the model is displayed after filtering, selecting, switching to the graph,
\* collapsing and expanding
C19_Witness ==
    /\ home.sbomData = ParseResult(<<AppGood>>, clock)
    /\ home.filters # InitialFilters
    /\ home.selectedComponent # Null
    /\ local.view = "graph"
    /\ local.collapsedNodes # {}
    /\ local.expandedNodes # {}

\* the targets the edge records of the batch declare for ref r
DeclaredTargets(docs, r) ==
    UNION {Range(AllEdges(docs)[k].dependsOn) :
              k \in {j \in 1..Len(AllEdges(docs)) :
                        AllEdges(docs)[j].ref = r /\ AllEdges(docs)[j].hasDependsOn}}

(* C21: a merged component's dependencies are exactly the union of the      *)
(* dependsOn targets of all edge records with its id as ref, over all       *)
(* documents, each target once; an edge record without dependsOn adds       *)
(* nothing and an edge whose ref matches no component adds no component.    *)
C21_EdgeMerging ==
    Done =>
        /\ Keys(result) = RecordIds(files)
        /\ \A r \in Keys(result) :
            /\ DepsOf(result, r) = DeclaredTargets(files, r)
            /\ Len(Comp(result, r).dependencies) = Cardinality(DepsOf(result, r))

\* a component declared in the first document only gets one target from an edge
\* record of each document
C21_Witness ==
    /\ Done
    /\ Len(files) = 2
    /\ \E r \in Keys(result) :
        /\ r \notin RecordIds(<<files[2]>>)
        /\ DeclaredTargets(<<files[1]>>, r) # {}
        /\ DeclaredTargets(<<files[2]>>, r) # {}
        /\ DeclaredTargets(<<files[1]>>, r) # DeclaredTargets(<<files[2]>>, r)
        /\ Cardinality(DepsOf(result, r)) = 2

\* the first id or name found in the license list of a record
FirstLicenseFound(rec) ==
    LET hits == {k \in 1..Len(rec.licenses) :
                    Truthy(rec.licenses[k].id) \/ Truthy(rec.licenses[k].name)}
        first == CHOOSE k \in hits : \A l \in hits : k <= l
    IN  IF hits = {} THEN UnknownLicense
        ELSE Or(rec.licenses[first].id, rec.licenses[first].name)

(* C22: a merged component's license is the first license id or name found  *)
(* in its record's license list, and "Unknown" only when no entry carries   *)
(* an id or a name.                                                         *)
C22_FirstLicenseFound ==
    Done =>
        \A id \in Keys(result) :
            Comp(result, id).license = FirstLicenseFound(FirstRecord(files, id))

(* C23: every component of every returned model has an empty                *)
(* vulnerabilities list: the input carries none and the merge adds none.    *)
C23_NoVulnerabilities ==
    Done => \A id \in Keys(result) : Comp(result, id).vulnerabilities = <<>>

\* a model whose components come from records with licenses, purl and properties
C23_Witness ==
    /\ Done
    /\ \E id \in Keys(result) :
        /\ Comp(result, id).license # UnknownLicense
        /\ Comp(result, id).purl # Undefined
        /\ Comp(result, id).path # ""
        /\ Comp(result, id).vulnerabilities = <<>>

(* C25: every id in rootComponents is the id of a component with isDirect   *)
(* true, and rootComponents holds no id twice, with inferred roots and      *)
(* with the fallback.                                                       *)
C25_RootsDirectAndDistinct ==
    Done =>
        /\ \A k \in 1..Len(result.rootComponents) :
            /\ result.rootComponents[k] \in Keys(result)
            /\ Comp(result, result.rootComponents[k]).isDirect
        /\ Len(result.rootComponents) = Cardinality(RootIds(result))

\* two inferred roots
C25_Witness ==
    /\ Done
    /\ RootsInferred(result, files)
    /\ Len(result.rootComponents) >= 2
    /\ Keys(result) # RootIds(result)

\* the fallback made every component of a cycle a root
C25_FallbackWitness ==
    /\ Done
    /\ ~RootsInferred(result, files)
    /\ Len(result.rootComponents) >= 2

(* C27: once every upload has completed, the displayed sbomData is the      *)
(* model of the upload that was started last (when that one parses),        *)
(* whichever upload finished first.                                         *)
C27_LastStartedUploadWins ==
    (/\ started.recorded
     /\ Len(started.order) >= 1
     /\ \A i \in DOMAIN uploads : uploads[i] = Idle
     /\ ~Rejects(started.order[Len(started.order)]))
        => home.sbomData = ParseResult(started.order[Len(started.order)], clock)

(* C28: selectedComponent is null or a component of the current sbomData.   *)
C28_SelectionInCurrentModel ==
    home # <<>> =>
        \/ home.selectedComponent = Null
        \/ /\ home.sbomData # Null
           /\ \E k \in 1..Len(home.sbomData.components) :
                 home.sbomData.components[k].val = home.selectedComponent

\* a component of the second model is selected: the first model, with its own
\* selection, was replaced
C28_Witness ==
    /\ home.sbomData = ParseResult(<<AppOther>>, clock)
    /\ home.selectedComponent # Null
    /\ local.view = "graph"
    /\ local.expandedNodes = {"a", "b"}

\* the criteria of the filter specification, one by one
SearchCriterion(comp, text) ==
    \/ text = ""
    \/ Includes(ToLowerCase(comp.name), ToLowerCase(text))
    \/ Includes(ToLowerCase(comp.version), ToLowerCase(text))

TypeCriterion(comp, type) ==
    \/ type = "all"
    \/ type = "direct" /\ comp.isDirect = TRUE
    \/ type = "transitive" /\ comp.isDirect = FALSE

SeverityCriterion(comp, severity) ==
    \/ severity = "all"
    \/ \E v \in Range(comp.vulnerabilities) : v.severity = severity

CveCriterion(comp, cveId) ==
    \/ cveId = ""
    \/ \E v \in Range(comp.vulnerabilities) : Includes(ToLowerCase(v.id), ToLowerCase(cveId))

\* the filtered list a view computes from its props and its own search term
FilteredBy(view, data, f, term) ==
    CASE view = "table" -> TableFilteredComponents(data, f, term)
      [] view = "graph" -> GraphFilteredComponents(data, f)
      [] view = "tree" -> TreeFilteredComponents(data, f)

OwnSearchTerm == IF local.view = "table" THEN local.searchTerm ELSE ""

C26_SeverityOrCveEmptiesList ==
    (home.filters.severity # "all" \/ home.filters.cveId # "") =>
        /\ rendered.status = "ok"
        /\ rendered.filtered = <<>>

\* the filtered components a filtered component depends on
FilteredDeps(id, filtered) ==
    {filtered[k].id : k \in 1..Len(filtered)}
        \cap UNION {Range(filtered[k].dependencies) : k \in {j \in 1..Len(filtered) : filtered[j].id = id}}

\* the least set that holds `ids` and the filtered dependencies of each of its
\* members outside `blocked`
RECURSIVE Closure(_, _, _)
Closure(ids, filtered, blocked) ==
    LET next == ids \cup UNION {FilteredDeps(id, filtered) : id \in ids \ blocked}
    IN  IF next = ids THEN ids ELSE Closure(next, filtered, blocked)

DirectFiltered(filtered) == {filtered[k].id : k \in {j \in 1..Len(filtered) : filtered[j].isDirect}}

\* reachable from a direct filtered component along edges out of components
\* that are not collapsed, the direct component at the start included
ReachableUncollapsed(filtered, collapsedNodes) ==
    Closure(DirectFiltered(filtered), filtered, collapsedNodes)

\* reachable from a direct filtered component along a path whose components
\* strictly between its ends are not collapsed
ReachableThroughUncollapsed(filtered, collapsedNodes) ==
    LET direct == DirectFiltered(filtered)
        first == direct \cup UNION {FilteredDeps(id, filtered) : id \in direct}
    IN  Closure(first, filtered, collapsedNodes)

ComponentNodeIds(graph) == {graph.nodes[k].id : k \in 2..Len(graph.nodes)}

\* the root and each visible component are one node each, and every link
\* joins two nodes
WellFormedGraph(graph) ==
    /\ graph.nodes[1].id = RootNodeId
    /\ \A j, k \in 1..Len(graph.nodes) : graph.nodes[j].id = graph.nodes[k].id => j = k
    /\ \A k \in 1..Len(graph.links) :
          /\ graph.links[k].source \in ComponentNodeIds(graph) \cup {RootNodeId}
          /\ graph.links[k].target \in ComponentNodeIds(graph) \cup {RootNodeId}

(* C29 as stated: a filtered component is a node of graphData exactly when  *)
(* it is direct or reachable from a direct filtered component along edges   *)
(* whose every intermediate component passes the filter and is not          *)
(* collapsed; one node per visible component, links between nodes.          *)
C29_VisibleIffReachableThroughIntermediates ==
    (rendered.status = "ok" /\ rendered.view = "graph") =>
        /\ ComponentNodeIds(rendered.graphData)
              = ReachableThroughUncollapsed(rendered.filtered, local.collapsedNodes)
        /\ WellFormedGraph(rendered.graphData)

(* C29 amended: a filtered component is a node of graphData exactly when it *)
(* is direct or reachable from a direct filtered component along edges out  *)
(* of components that pass the filter and are not collapsed, the direct     *)
(* component the path starts from included; one node per visible component, *)
(* links between nodes; the expansion ends on cyclic graphs.                *)
C29_VisibleIffReachableUncollapsed ==
    (rendered.status = "ok" /\ rendered.view = "graph") =>
        /\ ComponentNodeIds(rendered.graphData)
              = ReachableUncollapsed(rendered.filtered, local.collapsedNodes)
        /\ WellFormedGraph(rendered.graphData)

\* a collapsed node of the graph hides a dependency that depends on it in turn:
\* the two are on a cycle
C29_Witness ==
    /\ rendered.status = "ok"
    /\ rendered.view = "graph"
    /\ \E x \in ComponentNodeIds(rendered.graphData) \cap local.collapsedNodes :
          \E y \in FilteredDeps(x, rendered.filtered) :
              /\ y \notin ComponentNodeIds(rendered.graphData)
              /\ x \in FilteredDeps(y, rendered.filtered)

(* C30: rendering the tree terminates for every model and every set of      *)
(* expanded nodes, Expand All on a cyclic model included: a render that     *)
(* terminates never nests a component below itself, so no TreeNode is       *)
(* nested deeper than the number of components; buildTree creates no node   *)
(* at a level greater than 6.                                               *)
C30_TreeRenderTerminates ==
    /\ \A k \in 1..Len(tree.pending) :
          tree.pending[k].level < Len(home.sbomData.components)
    /\ \A k \in 1..Len(tree.treeData) : tree.treeData[k].level <= DepthLimit + 1

====
